---- MODULE Spec2Model ----
(***************************************************************************)
(* Model of github/util_propertyguru.go: the lazily populated, process-    *)
(* wide cache of the organization's teams and of each team's repositories, *)
(* filled by two mutex-guarded paginating loaders and read by three lookup *)
(* functions.                                                              *)
(*                                                                         *)
(* The file's package variables are the model's variables, under their own *)
(* names.  The goroutines that call the three external functions are kept  *)
(* as a bag of goroutine records: each record holds the position (pc) of   *)
(* one goroutine in the code, the arguments of its call and its locals.    *)
(* A goroutine makes one lookup; a second lookup by the same caller is a   *)
(* further goroutine that starts after the first has returned (a           *)
(* sync.Mutex has no owner, so the two are the same to the code).          *)
(***************************************************************************)
EXTENDS Integers, Sequences, FiniteSets, Bags, TLC

(* ------------------------------ bounds -------------------------------- *)
\* number of goroutines, each calling one lookup function
NCallers == 3
\* the page size: github.ListOptions{PerPage: 100} and the short-page test
\* `< 100` of both loops, scaled down so that collections of less than, exactly
\* and more than one page stay small
PerPage == 2

\* the organization holds between 0 and MaxTeams teams: up to a full page
\* followed by a short one
MaxTeams == PerPage + 1
\* the teams asked for by identifier or slug: one of the first page and the
\* one of the short second page; each exists or not, depending on numTeams
LookupIds == {1, MaxTeams}
\* the teams whose repositories are asked for
RepoTeams == {1, 2}
\* the repository names asked for: the first name any team can hold
RepoNames == {1}

\* error values: Go's nil, the 404 ErrorResponse the lookups synthesize, and
\* the transport errors the two list calls can return
Nil == <<"nil", 0>>
NotFound == <<"404", 0>>
ErrListTeams == <<"errListTeams", 0>>
ErrListTeamRepos(t) == <<"errListTeamRepos", t>>

\* a nil *github.Team / *github.Repository
NoTeam == [id |-> 0, slug |-> <<"slug", 0>>]
NoRepo == [name |-> 0, team |-> 0]

VARIABLES
    numTeams,            \* remote: how many teams the organization has
    pgGetAllTeamsResponse,
    pgGetAllTeamReposResponse,
    pgTeamsByTeamId,
    pgTeamsByTeamSlug,
    pgReposByTeamIdAndRepoName,
    pgMutexInitializeLocalDataTeams,      \* TRUE when locked
    pgDoneGetAllTeams,
    pgMutexInitializeLocalDataTeamRepos,  \* team id -> mutex pointer
    pgDoneGetAllTeamRepos,                \* team id -> BOOLEAN
    mutexLocked,         \* heap: the per-team mutexes that are locked
    nextMutex,           \* heap: the next fresh mutex pointer
    crashed,             \* the process died of a runtime panic
    goroutines,          \* bag of goroutine records
    teamsLog,            \* history: every ListTeams call, in order
    reposLog             \* history: per team, its ListTeamReposByID calls

Globals == <<numTeams, pgGetAllTeamsResponse, pgGetAllTeamReposResponse,
             pgTeamsByTeamId, pgTeamsByTeamSlug, pgReposByTeamIdAndRepoName,
             pgMutexInitializeLocalDataTeams, pgDoneGetAllTeams,
             pgMutexInitializeLocalDataTeamRepos, pgDoneGetAllTeamRepos,
             mutexLocked, nextMutex, crashed, teamsLog, reposLog>>

vars == <<Globals, goroutines>>

(* ------------------------- the remote collections ---------------------- *)
Min(a, b) == IF a < b THEN a ELSE b

\* github.Team: GetID() and GetSlug(); slugs are unique per team
SlugOf(i) == <<"slug", i>>
Team(i) == [id |-> i, slug |-> SlugOf(i)]

\* github.Repository as listed for team t: GetName(), and the team-specific
\* attributes (permissions) that make t's listing of a repository its own
Repo(t, n) == [name |-> n, team |-> t]

\* how many items page p of a collection of n items holds
PageCount(n, p) ==
    IF (p - 1) * PerPage >= n THEN 0 ELSE Min(PerPage, n - (p - 1) * PerPage)

\* client.Teams.ListTeams(ctx, org, {PerPage, Page: p}) when it succeeds
ListTeams(p) ==
    [i \in 1..PageCount(numTeams, p) |-> Team((p - 1) * PerPage + i)]

\* team t owns NumRepos(t) repositories, named 1..NumRepos(t): none for team
\* 1, one full page for team 2
NumRepos(t) == (t - 1) * PerPage

\* client.Teams.ListTeamReposByID(ctx, orgId, t, {PerPage, Page: p}) on success
ListTeamReposByID(t, p) ==
    [i \in 1..PageCount(NumRepos(t), p) |-> Repo(t, (p - 1) * PerPage + i)]

(* ------------------------------ helpers -------------------------------- *)
\* a Go map, as a function on the set of its keys
EmptyMap == <<>>
Has(m, k) == k \in DOMAIN m
Put(m, k, v) == [x \in DOMAIN m \cup {k} |-> IF x = k THEN v ELSE m[x]]

\* line 69: if !pgDoneGetAllTeams
\* (variant: the flag is not consulted)
TeamsNeedLoad_Always == TRUE
TeamsNeedLoad == ~pgDoneGetAllTeams

\* line 68: sync.Mutex.Lock() returns only when the mutex is unlocked
\* (variant: Lock never waits)
TeamsMutexFree_Always == TRUE
TeamsMutexFree == ~pgMutexInitializeLocalDataTeams

\* lines 87 and 118: a page shorter than the page size ends the loop
IsLastPage(items) == Len(items) < PerPage

\* lines 80-85: index every team of the page, register its mutex and flag
RECURSIVE IndexById(_, _, _)
IndexById(m, teams, i) ==
    IF i > Len(teams) THEN m
    ELSE IndexById(Put(m, teams[i].id, teams[i]), teams, i + 1)

RECURSIVE IndexBySlug(_, _, _)
IndexBySlug(m, teams, i) ==
    IF i > Len(teams) THEN m
    ELSE IndexBySlug(Put(m, teams[i].slug, teams[i]), teams, i + 1)

\* lines 80-82: the two indices after the page's teams were added to them
\* (variants: each page replaces what the earlier pages indexed)
IndexTeamsById_PageOnly(m, teams) == IndexById(EmptyMap, teams, 1)
IndexTeamsById(m, teams) == IndexById(m, teams, 1)
IndexTeamsBySlug_PageOnly(m, teams) == IndexBySlug(EmptyMap, teams, 1)
IndexTeamsBySlug(m, teams) == IndexBySlug(m, teams, 1)

RECURSIVE RegisterMutexes(_, _, _, _)
RegisterMutexes(m, teams, i, next) ==
    IF i > Len(teams) THEN m
    ELSE RegisterMutexes(Put(m, teams[i].id, next), teams, i + 1, next + 1)

RECURSIVE RegisterFlags(_, _, _)
RegisterFlags(m, teams, i) ==
    IF i > Len(teams) THEN m
    ELSE RegisterFlags(Put(m, teams[i].id, FALSE), teams, i + 1)

\* line 102: if !pgDoneGetAllTeamRepos[teamID]; a missing key reads false
\* (variant: the flag is not consulted)
ReposNeedLoad_Always(t) == TRUE
ReposNeedLoad(t) ==
    ~(Has(pgDoneGetAllTeamRepos, t) /\ pgDoneGetAllTeamRepos[t])

\* line 124: pgDoneGetAllTeamRepos[teamID] = true
\* (variant: the flag is left as it is)
MarkReposDone_Skip(m, t) == m
MarkReposDone(m, t) == Put(m, t, TRUE)

\* line 101: a per-team mutex can be locked only when it is unlocked
\* (variant: Lock never waits)
MutexFree_Always(m) == TRUE
MutexFree(m) == m \notin mutexLocked

\* lines 114-116: mapRepoNameToRepo[repo.GetName()] = repo, for each repo
RECURSIVE IndexByName(_, _, _)
IndexByName(m, repos, i) ==
    IF i > Len(repos) THEN m
    ELSE IndexByName(Put(m, repos[i].name, repos[i]), repos, i + 1)

\* lines 162-163: the repository named n in team t's map, nil when the team
\* has no map or the map has no such name
RepoInIndex(t, n) ==
    IF Has(pgReposByTeamIdAndRepoName, t)
       /\ Has(pgReposByTeamIdAndRepoName[t], n)
    THEN pgReposByTeamIdAndRepoName[t][n]
    ELSE NoRepo

\* lines 141-144, 153-156, 167-170: a nil load error becomes the 404
\* (variant: the load's error is returned as it is)
OrNotFound_Nil(err) == err
OrNotFound(err) == IF err = Nil THEN NotFound ELSE err

(* ------------------------------- Init ---------------------------------- *)
\* a goroutine that has not called yet.  pc: where it is; kind, id, name: the
\* function it called and its arguments; page, mapRepoNameToRepo: the
\* loaders' locals; fetchErr: the local err of its last list call (lines 73,
\* 107); listed: it has called ListTeams; initRet: what its loader returned;
\* val, err: what its lookup returned
Idle == [pc |-> "idle", kind |-> "none", id |-> 0, name |-> 0, page |-> 0,
         mapRepoNameToRepo |-> EmptyMap, listed |-> FALSE, fetchErr |-> Nil,
         initRet |-> Nil, val |-> NoTeam, err |-> Nil]

\* the calls a goroutine can make: function and arguments.  The two team
\* lookups are the same code up to lines 138 and 150, where they first use
\* their argument, after the loader has returned: which of the two the
\* goroutine is in, and its argument, are drawn there (GetTeamByTeamId,
\* GetTeamByTeamSlug) and not when the goroutine enters the function
Ops ==
    [kind : {"team"}, id : {0}, name : {0}]
    \cup [kind : {"repo"}, id : RepoTeams, name : RepoNames]

Init ==
    /\ numTeams \in 0..MaxTeams
    /\ pgGetAllTeamsResponse = [teams |-> <<>>, resp |-> 0, err |-> Nil]
    /\ pgGetAllTeamReposResponse = [repos |-> <<>>, resp |-> 0, err |-> Nil]
    /\ pgTeamsByTeamId = EmptyMap
    /\ pgTeamsByTeamSlug = EmptyMap
    /\ pgReposByTeamIdAndRepoName = EmptyMap
    /\ pgMutexInitializeLocalDataTeams = FALSE
    /\ pgDoneGetAllTeams = FALSE
    /\ pgMutexInitializeLocalDataTeamRepos = EmptyMap
    /\ pgDoneGetAllTeamRepos = EmptyMap
    /\ mutexLocked = {}
    /\ nextMutex = 1
    /\ crashed = FALSE
    /\ goroutines = [g \in {Idle} |-> NCallers]
    /\ teamsLog = <<>>
    /\ reposLog = [t \in RepoTeams |-> <<>>]

(* --------------------------- frame shorthands -------------------------- *)
TeamsState == <<pgGetAllTeamsResponse, pgTeamsByTeamId, pgTeamsByTeamSlug,
                pgMutexInitializeLocalDataTeams, pgDoneGetAllTeams, teamsLog>>
RegistryState == <<pgMutexInitializeLocalDataTeamRepos, pgDoneGetAllTeamRepos,
                   nextMutex>>
ReposState == <<pgGetAllTeamReposResponse, pgReposByTeamIdAndRepoName,
                mutexLocked, reposLog>>

\* goroutine g moves on to be g2
Becomes(g, g2) ==
    goroutines' = (goroutines (-) SetToBag({g})) (+) SetToBag({g2})

Running == BagToSet(goroutines)

\* where pgInitializeLocalDataTeams returns to: the lookup that called it
AfterTeams(g) == "team_read"

(* ------------------------ the external functions ----------------------- *)
\* lines 136-137, 148-149, 160-161: a goroutine enters a lookup, which
\* first calls its loader
Call(g) ==
    /\ ~crashed
    /\ g.pc = "idle"
    /\ \E o \in Ops :
        Becomes(g, [g EXCEPT !.kind = o.kind, !.id = o.id, !.name = o.name,
                             !.val = IF o.kind = "repo" THEN NoRepo ELSE NoTeam,
                             !.pc = IF o.kind = "repo" THEN "r_lock"
                                    ELSE "t_lock"])
    /\ UNCHANGED Globals

(* -------------------- pgInitializeLocalDataTeams ----------------------- *)
\* lines 68-70: pgMutexInitializeLocalDataTeams.Lock();
\* if !pgDoneGetAllTeams { page := 1
TeamsLock(g) ==
    /\ ~crashed
    /\ g.pc = "t_lock"
    /\ TeamsMutexFree
    /\ pgMutexInitializeLocalDataTeams' = TRUE
    /\ IF TeamsNeedLoad
       THEN Becomes(g, [g EXCEPT !.pc = "t_fetch", !.page = 1])
       ELSE Becomes(g, [g EXCEPT !.pc = "t_unlock"])
    /\ UNCHANGED <<numTeams, pgGetAllTeamsResponse, pgTeamsByTeamId,
                   pgTeamsByTeamSlug, pgDoneGetAllTeams, teamsLog,
                   RegistryState, ReposState, crashed>>

\* lines 72-78: one ListTeams call, its outcome stored in the global; on an
\* error the function returns it at once (line 77: the mutex stays locked)
TeamsFetch(g) ==
    /\ ~crashed
    /\ g.pc = "t_fetch"
    /\ \E ok \in BOOLEAN :
        /\ pgGetAllTeamsResponse' =
              IF ok THEN [teams |-> ListTeams(g.page), resp |-> g.page,
                          err |-> Nil]
              ELSE [teams |-> <<>>, resp |-> g.page, err |-> ErrListTeams]
        /\ teamsLog' = Append(teamsLog, [page |-> g.page, ok |-> ok])
    /\ IF pgGetAllTeamsResponse'.err # Nil
       THEN Becomes(g, [g EXCEPT !.pc = AfterTeams(g), !.page = 0,
                                 !.listed = TRUE,
                                 !.fetchErr = pgGetAllTeamsResponse'.err,
                                 !.initRet = pgGetAllTeamsResponse'.err])
       ELSE Becomes(g, [g EXCEPT !.pc = "t_index", !.listed = TRUE])
    /\ UNCHANGED <<numTeams, pgTeamsByTeamId, pgTeamsByTeamSlug,
                   pgMutexInitializeLocalDataTeams, pgDoneGetAllTeams,
                   RegistryState, ReposState, crashed>>

\* lines 80-92: index the page's teams and register their loader state;
\* then a short page ends the loop and sets the flag, a full one does page++
TeamsIndex(g) ==
    /\ ~crashed
    /\ g.pc = "t_index"
    /\ LET teams == pgGetAllTeamsResponse.teams IN
        /\ pgTeamsByTeamId' = IndexTeamsById(pgTeamsByTeamId, teams)
        /\ pgTeamsByTeamSlug' = IndexTeamsBySlug(pgTeamsByTeamSlug, teams)
        /\ pgMutexInitializeLocalDataTeamRepos' =
              RegisterMutexes(pgMutexInitializeLocalDataTeamRepos, teams, 1,
                              nextMutex)
        /\ pgDoneGetAllTeamRepos' =
              RegisterFlags(pgDoneGetAllTeamRepos, teams, 1)
        /\ nextMutex' = nextMutex + Len(teams)
        /\ IF IsLastPage(teams)
           THEN /\ pgDoneGetAllTeams' = TRUE
                /\ Becomes(g, [g EXCEPT !.pc = "t_unlock", !.page = 0])
           ELSE /\ pgDoneGetAllTeams' = pgDoneGetAllTeams
                /\ Becomes(g, [g EXCEPT !.pc = "t_fetch", !.page = @ + 1])
    /\ UNCHANGED <<numTeams, pgGetAllTeamsResponse,
                   pgMutexInitializeLocalDataTeams, teamsLog, ReposState,
                   crashed>>

\* line 94: pgMutexInitializeLocalDataTeams.Unlock()
TeamsUnlock(g) ==
    /\ ~crashed
    /\ g.pc = "t_unlock"
    /\ pgMutexInitializeLocalDataTeams' = FALSE
    /\ Becomes(g, [g EXCEPT !.pc = "t_ret"])
    /\ UNCHANGED <<numTeams, pgGetAllTeamsResponse, pgTeamsByTeamId,
                   pgTeamsByTeamSlug, pgDoneGetAllTeams, teamsLog,
                   RegistryState, ReposState, crashed>>

\* line 95: return pgGetAllTeamsResponse.err
TeamsReturn(g) ==
    /\ ~crashed
    /\ g.pc = "t_ret"
    /\ Becomes(g, [g EXCEPT !.pc = AfterTeams(g),
                            !.initRet = pgGetAllTeamsResponse.err])
    /\ UNCHANGED Globals

(* ---------------- pgGetTeamByTeamId / pgGetTeamByTeamSlug -------------- *)
\* lines 138-145 as a function of the state they read
TeamByIdResult(id) ==
    IF Has(pgTeamsByTeamId, id)
    THEN [val |-> pgTeamsByTeamId[id], err |-> pgGetAllTeamsResponse.err]
    ELSE [val |-> NoTeam, err |-> OrNotFound(pgGetAllTeamsResponse.err)]

\* lines 150-157 as a function of the state they read
TeamBySlugResult(slug) ==
    IF Has(pgTeamsByTeamSlug, slug)
    THEN [val |-> pgTeamsByTeamSlug[slug], err |-> pgGetAllTeamsResponse.err]
    ELSE [val |-> NoTeam, err |-> OrNotFound(pgGetAllTeamsResponse.err)]

\* lines 138-145: after the loader returned, read the index and the error
GetTeamByTeamId(g) ==
    /\ ~crashed
    /\ g.pc = "team_read"
    /\ \E id \in LookupIds :
        Becomes(g, [g EXCEPT !.pc = "ret", !.kind = "byId", !.id = id,
                             !.val = TeamByIdResult(id).val,
                             !.err = TeamByIdResult(id).err])
    /\ UNCHANGED Globals

\* lines 150-157: the same by slug (id stands for the slug SlugOf(id))
GetTeamByTeamSlug(g) ==
    /\ ~crashed
    /\ g.pc = "team_read"
    /\ \E id \in LookupIds :
        Becomes(g, [g EXCEPT !.pc = "ret", !.kind = "bySlug", !.id = id,
                             !.val = TeamBySlugResult(SlugOf(id)).val,
                             !.err = TeamBySlugResult(SlugOf(id)).err])
    /\ UNCHANGED Globals

(* ------------------- pgInitializeLocalDataTeamRepos -------------------- *)
\* lines 101-104: pgMutexInitializeLocalDataTeamRepos[teamID].Lock(); the map
\* yields a nil *sync.Mutex for a team that is not registered, and Lock on
\* it is a nil pointer dereference: the runtime panics and the process dies.
\* Then: if !pgDoneGetAllTeamRepos[teamID] { fresh map; page := 1
ReposLock(g) ==
    /\ ~crashed
    /\ g.pc = "r_lock"
    /\ IF ~Has(pgMutexInitializeLocalDataTeamRepos, g.id)
       THEN /\ crashed' = TRUE
            /\ Becomes(g, [g EXCEPT !.pc = "panic"])
            /\ UNCHANGED mutexLocked
       ELSE /\ MutexFree(pgMutexInitializeLocalDataTeamRepos[g.id])
            /\ mutexLocked' =
                  mutexLocked \cup {pgMutexInitializeLocalDataTeamRepos[g.id]}
            /\ IF ReposNeedLoad(g.id)
               THEN Becomes(g, [g EXCEPT !.pc = "r_fetch", !.page = 1])
               ELSE Becomes(g, [g EXCEPT !.pc = "r_unlock"])
            /\ UNCHANGED crashed
    /\ UNCHANGED <<numTeams, TeamsState, RegistryState,
                   pgGetAllTeamReposResponse, pgReposByTeamIdAndRepoName,
                   reposLog>>

\* lines 106-108: one ListTeamReposByID call, its outcome stored in the one
\* global every team's loader shares
ReposFetch(g) ==
    /\ ~crashed
    /\ g.pc = "r_fetch"
    /\ \E ok \in BOOLEAN :
        /\ pgGetAllTeamReposResponse' =
              IF ok THEN [repos |-> ListTeamReposByID(g.id, g.page),
                          resp |-> g.page, err |-> Nil]
              ELSE [repos |-> <<>>, resp |-> g.page,
                    err |-> ErrListTeamRepos(g.id)]
        /\ reposLog' = [reposLog EXCEPT
                           ![g.id] = Append(@, [page |-> g.page, ok |-> ok])]
    /\ Becomes(g, [g EXCEPT !.pc = "r_err",
                            !.fetchErr = pgGetAllTeamReposResponse'.err])
    /\ UNCHANGED <<numTeams, TeamsState, RegistryState,
                   pgReposByTeamIdAndRepoName, mutexLocked, crashed>>

\* lines 110-112: if the global holds an error, return it (line 111: the
\* team's mutex stays locked)
ReposErrCheck(g) ==
    /\ ~crashed
    /\ g.pc = "r_err"
    /\ IF pgGetAllTeamReposResponse.err # Nil
       THEN Becomes(g, [g EXCEPT !.pc = "g_read", !.page = 0,
                                 !.mapRepoNameToRepo = EmptyMap,
                                 !.initRet = pgGetAllTeamReposResponse.err])
       ELSE Becomes(g, [g EXCEPT !.pc = "r_index"])
    /\ UNCHANGED Globals

\* lines 114-116: add the repositories of the global response to the local map
ReposIndex(g) ==
    /\ ~crashed
    /\ g.pc = "r_index"
    /\ Becomes(g, [g EXCEPT !.pc = "r_len",
                            !.mapRepoNameToRepo =
                               IndexByName(@, pgGetAllTeamReposResponse.repos,
                                           1)])
    /\ UNCHANGED Globals

\* lines 118-121: a short page in the global ends the loop, else page++
ReposLenCheck(g) ==
    /\ ~crashed
    /\ g.pc = "r_len"
    /\ IF IsLastPage(pgGetAllTeamReposResponse.repos)
       THEN Becomes(g, [g EXCEPT !.pc = "r_store", !.page = 0])
       ELSE Becomes(g, [g EXCEPT !.pc = "r_fetch", !.page = @ + 1])
    /\ UNCHANGED Globals

\* lines 123-124: Store the team's map in the sync.Map and set its flag
ReposStore(g) ==
    /\ ~crashed
    /\ g.pc = "r_store"
    /\ pgReposByTeamIdAndRepoName' =
          Put(pgReposByTeamIdAndRepoName, g.id, g.mapRepoNameToRepo)
    /\ pgDoneGetAllTeamRepos' = MarkReposDone(pgDoneGetAllTeamRepos, g.id)
    /\ Becomes(g, [g EXCEPT !.pc = "r_unlock", !.mapRepoNameToRepo = EmptyMap])
    /\ UNCHANGED <<numTeams, TeamsState, pgMutexInitializeLocalDataTeamRepos,
                   nextMutex, pgGetAllTeamReposResponse, mutexLocked, reposLog,
                   crashed>>

\* line 126: pgMutexInitializeLocalDataTeamRepos[teamID].Unlock()
ReposUnlock(g) ==
    /\ ~crashed
    /\ g.pc = "r_unlock"
    /\ mutexLocked' =
          mutexLocked \ {pgMutexInitializeLocalDataTeamRepos[g.id]}
    /\ Becomes(g, [g EXCEPT !.pc = "r_ret"])
    /\ UNCHANGED <<numTeams, TeamsState, RegistryState,
                   pgGetAllTeamReposResponse, pgReposByTeamIdAndRepoName,
                   reposLog, crashed>>

\* line 127: return pgGetAllTeamReposResponse.err
ReposReturn(g) ==
    /\ ~crashed
    /\ g.pc = "r_ret"
    /\ Becomes(g, [g EXCEPT !.pc = "g_read",
                            !.initRet = pgGetAllTeamReposResponse.err])
    /\ UNCHANGED Globals

(* -------------------- pgGetRepoByTeamIDAndRepoName --------------------- *)
\* lines 162-171 as a function of the state they read
RepoByTeamAndNameResult(t, n) ==
    IF RepoInIndex(t, n) # NoRepo
    THEN [val |-> RepoInIndex(t, n), err |-> pgGetAllTeamReposResponse.err]
    ELSE [val |-> NoRepo, err |-> OrNotFound(pgGetAllTeamReposResponse.err)]

\* lines 162-171: Load the team's map, look the name up, read the error
GetRepoByTeamIDAndRepoName(g) ==
    /\ ~crashed
    /\ g.pc = "g_read"
    /\ Becomes(g, [g EXCEPT !.pc = "ret",
                            !.val = RepoByTeamAndNameResult(g.id, g.name).val,
                            !.err = RepoByTeamAndNameResult(g.id, g.name).err])
    /\ UNCHANGED Globals

(* ------------------- the unsynchronised registry maps ------------------ *)
\* pgMutexInitializeLocalDataTeamRepos and pgDoneGetAllTeamRepos are plain
\* maps (lines 56-57).  The teams loader writes both under the teams mutex
\* (lines 83-84); a repository loader reads them holding no mutex (101) or
\* its own team's (102, 126) and writes the flags under its own team's (124).

\* the goroutines whose next step writes both maps: lines 83-84, for a page
\* that holds a team
RegistryWriters ==
    {g \in Running : g.pc = "t_index" /\ Len(pgGetAllTeamsResponse.teams) > 0}
\* the goroutines whose next step reads or writes one of the maps: lines 101
\* and 102, 124, 126
RegistryUsers == {g \in Running : g.pc \in {"r_lock", "r_store", "r_unlock"}}
\* the goroutines whose next step writes the flags map: line 124
FlagWriters == {g \in Running : g.pc = "r_store"}
\* the goroutines whose next step reads team t's flag: line 102, once the
\* team's mutex lets them pass line 101
FlagReaders(t) ==
    {g \in Running :
        /\ g.pc = "r_lock" /\ g.id = t
        /\ Has(pgMutexInitializeLocalDataTeamRepos, t)
        /\ MutexFree(pgMutexInitializeLocalDataTeamRepos[t])}

\* two goroutines are about to access one of the maps, one of them writing it,
\* and no mutex orders them: the teams loader against any repository loader,
\* or the loaders of two teams at the flags map
RegistryRace ==
    \/ RegistryWriters # {} /\ RegistryUsers # {}
    \/ \E g \in FlagWriters : \E h \in FlagWriters : g.id # h.id
    \/ \E g \in FlagWriters : \E t \in RepoTeams \ {g.id} : FlagReaders(t) # {}

\* a racing access to a Go map has no defined outcome: besides the outcomes
\* in which the two accesses happen one after the other, the runtime may
\* detect it ("fatal error: concurrent map read and map write", "concurrent
\* map writes") and end the process
MapRaceFault ==
    /\ ~crashed
    /\ RegistryRace
    /\ crashed' = TRUE
    /\ UNCHANGED <<numTeams, TeamsState, RegistryState, ReposState,
                   goroutines>>

\* any goroutine takes its next step
Next ==
    \/ \E g \in Running : Call(g)
    \/ \E g \in Running : TeamsLock(g)
    \/ \E g \in Running : TeamsFetch(g)
    \/ \E g \in Running : TeamsIndex(g)
    \/ \E g \in Running : TeamsUnlock(g)
    \/ \E g \in Running : TeamsReturn(g)
    \/ \E g \in Running : GetTeamByTeamId(g)
    \/ \E g \in Running : GetTeamByTeamSlug(g)
    \/ \E g \in Running : ReposLock(g)
    \/ \E g \in Running : ReposFetch(g)
    \/ \E g \in Running : ReposErrCheck(g)
    \/ \E g \in Running : ReposIndex(g)
    \/ \E g \in Running : ReposLenCheck(g)
    \/ \E g \in Running : ReposStore(g)
    \/ \E g \in Running : ReposUnlock(g)
    \/ \E g \in Running : ReposReturn(g)
    \/ \E g \in Running : GetRepoByTeamIDAndRepoName(g)
    \/ MapRaceFault

Spec == Init /\ [][Next]_vars
(* ------------------------------ properties ----------------------------- *)
\* how many goroutines satisfy P
RECURSIVE SumCopies(_)
SumCopies(S) ==
    IF S = {} THEN 0
    ELSE LET g == CHOOSE x \in S : TRUE
         IN CopiesIn(g, goroutines) + SumCopies(S \ {g})

\* the goroutines that are inside the teams loader's critical section
InTeamsLoader == {g \in Running : g.pc \in {"t_fetch", "t_index", "t_unlock"}}
\* the goroutines that are in the teams loader's pagination loop
InTeamsLoop == {g \in Running : g.pc \in {"t_fetch", "t_index"}}
\* the goroutines whose team lookup has returned
TeamLookupsReturned ==
    {g \in Running : g.pc = "ret" /\ g.kind \in {"byId", "bySlug"}}
\* the goroutines whose repository lookup has returned
RepoLookupsReturned == {g \in Running : g.pc = "ret" /\ g.kind = "repo"}

NoTeamsFetchFailed == \A i \in 1..Len(teamsLog) : teamsLog[i].ok
\* the fetches of one sequential pagination of a collection of n items
FullPagination(n) == (n \div PerPage) + 1
\* the teams the organization holds
RemoteTeams == {Team(i) : i \in 1..numTeams}

\* C1: at-most-once teams load.  As long as no ListTeams call has failed, the
\* calls made so far are pages 1, 2, 3, ... each once and in order, made by a
\* single goroutine, never more than one full pagination needs; and once the
\* load has completed they are exactly the pages of one full pagination.
C1_AtMostOnceTeamsLoad ==
    NoTeamsFetchFailed =>
        /\ Len(teamsLog) <= FullPagination(numTeams)
        /\ \A i \in 1..Len(teamsLog) : teamsLog[i].page = i
        /\ SumCopies({g \in Running : g.listed}) <= 1
        /\ pgDoneGetAllTeams =>
              /\ Len(teamsLog) = FullPagination(numTeams)
              /\ SumCopies({g \in Running : g.listed}) = 1

\* three team lookups have returned after a load of two pages: one goroutine
\* made the calls, the others made none
C1_Witness ==
    /\ pgDoneGetAllTeams
    /\ Len(teamsLog) = 2
    /\ SumCopies(TeamLookupsReturned) = NCallers
    /\ SumCopies({g \in TeamLookupsReturned : ~g.listed}) = NCallers - 1

\* the goroutines inside the critical section of team t's repository loader
InReposLoader(t) ==
    {g \in Running :
        /\ g.kind = "repo" /\ g.id = t
        /\ g.pc \in {"r_fetch", "r_err", "r_index", "r_len", "r_store",
                     "r_unlock"}}
\* team t's mutex is registered and locked
TeamMutexLocked(t) ==
    /\ Has(pgMutexInitializeLocalDataTeamRepos, t)
    /\ ~MutexFree(pgMutexInitializeLocalDataTeamRepos[t])
\* team t's repository load has completed
ReposLoaded(t) == ~ReposNeedLoad(t)
\* the repositories team t holds
RemoteRepos(t) == {Repo(t, n) : n \in 1..NumRepos(t)}

\* C2: retry after a failed teams load.  After a failed ListTeams call the
\* completion flag is unset; a call that arrives when the failed attempt has
\* left the loader finds the mutex unlocked, so that it can proceed; and the
\* call that follows a failed one in the log asks for page 1.
C2_RetryAfterFailedTeamsLoad ==
    /\ ~NoTeamsFetchFailed => ~pgDoneGetAllTeams
    /\ \A g \in Running :
          (g.pc = "t_lock" /\ ~NoTeamsFetchFailed /\ InTeamsLoader = {})
              => TeamsMutexFree
    /\ \A i \in 1..(Len(teamsLog) - 1) :
          ~teamsLog[i].ok => teamsLog[i + 1].page = 1

\* C3: retry after a failed children load.  When the loader has returned the
\* error of the goroutine's own failed ListTeamReposByID call, the team's flag
\* is unset; and a call for the team that arrives when no goroutine is inside
\* the team's loader finds the team's mutex unlocked, so that it returns and
\* fetches again instead of blocking.
C3_RetryAfterFailedChildrenLoad ==
    /\ \A g \in Running :
          (g.kind = "repo" /\ g.pc \in {"g_read", "ret"}
           /\ g.fetchErr # Nil /\ g.initRet = g.fetchErr)
              => ~ReposLoaded(g.id)
    /\ \A g \in Running :
          (g.kind = "repo" /\ g.pc = "r_lock" /\ InReposLoader(g.id) = {})
              => ~TeamMutexLocked(g.id)

\* C4: a failed load releases its waiters.  Unless the process has crashed,
\* whenever no goroutine can take a step every call has returned: no call is
\* left waiting for a mutex that nobody will unlock.
C4_NoCallBlocksForever ==
    \/ crashed
    \/ \A g \in Running : g.pc = "ret"
    \/ ENABLED Next

\* C5: child lookups report their own team's outcome.  A repository lookup
\* returns the 404 only if its team's load has completed and the name is not
\* in the team's index; and if its own list call failed, it returns that
\* call's error.
C5_ChildLookupReportsOwnOutcome ==
    \A g \in RepoLookupsReturned :
        /\ g.err = NotFound =>
              (ReposLoaded(g.id) /\ RepoInIndex(g.id, g.name) = NoRepo)
        /\ g.fetchErr # Nil => g.err = g.fetchErr

\* C6: per-team result isolation.  For a team whose load has completed, the
\* loader returns nil and the lookup returns the team's repository of that
\* name with a nil error, or nothing with the 404 when the team holds no
\* repository of that name.
C6_PerTeamResultIsolation ==
    \A g \in RepoLookupsReturned :
        ReposLoaded(g.id) =>
            /\ g.initRet = Nil
            /\ Repo(g.id, g.name) \in RemoteRepos(g.id)
                  => (g.val = Repo(g.id, g.name) /\ g.err = Nil)
            /\ Repo(g.id, g.name) \notin RemoteRepos(g.id)
                  => (g.val = NoRepo /\ g.err = NotFound)

\* C7: a child lookup drives the teams loader first.  No goroutine is in a
\* team's repository loader before the teams load has completed, and the
\* process never faults on a team's missing mutex.
C7_ChildLookupLoadsTeamsFirst ==
    /\ ~crashed
    /\ \A t \in RepoTeams : InReposLoader(t) # {} => pgDoneGetAllTeams

\* C8: index consistency.  Once the teams load has completed, looking up any
\* team T of the organization, of whichever page, by T.id and by T.slug
\* yields T with a nil error; and every team lookup that has returned after
\* its loader returned nil, for a team of the organization, returned it so.
C8_IndexConsistency ==
    pgDoneGetAllTeams =>
        /\ \A T \in RemoteTeams :
              /\ TeamByIdResult(T.id) = [val |-> T, err |-> Nil]
              /\ TeamBySlugResult(T.slug) = [val |-> T, err |-> Nil]
        /\ \A g \in TeamLookupsReturned :
              (g.initRet = Nil /\ g.id \in 1..numTeams)
                  => (g.val = Team(g.id) /\ g.err = Nil)

\* lookups by id and by slug have returned a team of the second page and a
\* team of the first page
C8_Witness ==
    /\ pgDoneGetAllTeams
    /\ numTeams = MaxTeams
    /\ \E g \in TeamLookupsReturned :
          g.kind = "byId" /\ g.val = Team(MaxTeams) /\ g.err = Nil
    /\ \E g \in TeamLookupsReturned :
          g.kind = "bySlug" /\ g.val = Team(1) /\ g.err = Nil

\* C9: not-found distinctness.  Once the teams load has completed, looking up
\* an identifier or slug the organization does not hold yields no team and
\* the 404 error, never the load's nil error; and every team lookup that has
\* returned after its loader returned nil, for an absent team, returned so.
C9_NotFoundDistinct ==
    pgDoneGetAllTeams =>
        /\ \A id \in (0..(MaxTeams + 1)) \ (1..numTeams) :
              /\ TeamByIdResult(id) = [val |-> NoTeam, err |-> NotFound]
              /\ TeamBySlugResult(SlugOf(id)) =
                    [val |-> NoTeam, err |-> NotFound]
        /\ \A g \in TeamLookupsReturned :
              (g.initRet = Nil /\ g.id \notin 1..numTeams)
                  => (g.val = NoTeam /\ g.err = NotFound)

\* after a load of a non-empty organization, lookups by id and by slug of the
\* team the organization lacks have returned the 404
C9_Witness ==
    /\ pgDoneGetAllTeams
    /\ numTeams = PerPage
    /\ \E g \in TeamLookupsReturned :
          g.kind = "byId" /\ g.id = MaxTeams /\ g.err = NotFound
    /\ \E g \in TeamLookupsReturned :
          g.kind = "bySlug" /\ g.id = MaxTeams /\ g.err = NotFound

\* C10: a lookup started mid-load sees the whole load.  At most one goroutine
\* is inside the teams loader, so a lookup that arrives during a pagination
\* waits at Lock; no lookup reads the indices or the response while a
\* goroutine is in the pagination loop; and a lookup whose loader returned
\* nil reads indices that hold all teams of all pages, and returns from them.
C10_LookupSeesWholeLoad ==
    /\ SumCopies(InTeamsLoader) <= 1
    /\ \A g \in Running :
          g.pc = "team_read" =>
              /\ InTeamsLoop = {}
              /\ g.initRet = Nil =>
                    /\ {pgTeamsByTeamId[k] : k \in DOMAIN pgTeamsByTeamId}
                          = RemoteTeams
                    /\ {pgTeamsByTeamSlug[k] : k \in DOMAIN pgTeamsByTeamSlug}
                          = RemoteTeams
    /\ \A g \in TeamLookupsReturned :
          g.initRet = Nil => (g.val = Team(g.id) <=> g.id \in 1..numTeams)

\* a lookup waits at Lock while the loader, having indexed the first page, is
\* about to index the second
C10_Witness ==
    /\ \E g \in Running : g.pc = "t_lock"
    /\ \E h \in Running : h.pc = "t_index" /\ h.page = 2
    /\ DOMAIN pgTeamsByTeamId = 1..PerPage

\* no ListTeamReposByID call for team t has failed
NoReposFetchFailed(t) ==
    \A i \in 1..Len(reposLog[t]) : reposLog[t][i].ok
\* the goroutines that have left team t's repository loader
LeftReposLoader(t) ==
    {g \in Running :
        g.kind = "repo" /\ g.id = t /\ g.pc \in {"g_read", "ret"}}

\* C11: per-team independence.  For a team none of whose own list calls has
\* failed, whatever the callers of the other teams did: a caller that has
\* left the team's loader leaves the team loaded, and when no goroutine is
\* inside the team's loader the team's mutex is unlocked, so that no caller
\* of the team is blocked.
C11_PerTeamIndependence ==
    \A t \in RepoTeams :
        NoReposFetchFailed(t) =>
            /\ LeftReposLoader(t) # {} => ReposLoaded(t)
            /\ InReposLoader(t) = {} => ~TeamMutexLocked(t)

\* the goroutines in the pagination loop of team t's repository loader
InReposLoop(t) == {g \in InReposLoader(t) : g.pc # "r_unlock"}

TeamsLoadFailedPartWay ==
    /\ Len(teamsLog) > 1
    /\ ~teamsLog[Len(teamsLog)].ok

\* C13: team indices are populated only on success.  After a teams load that
\* failed on a page after the first the two indices hold no team; and a team
\* lookup that has returned a non-nil error has returned no team.
C13_IndicesOnlyOnSuccess ==
    /\ TeamsLoadFailedPartWay =>
          (pgTeamsByTeamId = EmptyMap /\ pgTeamsByTeamSlug = EmptyMap)
    /\ \A g \in TeamLookupsReturned : g.err # Nil => g.val = NoTeam

\* team t's completion flag is set
DoneFlagSet(t) == Has(pgDoneGetAllTeamRepos, t) /\ pgDoneGetAllTeamRepos[t]

Values(m) == {m[k] : k \in DOMAIN m}

\* C15: the two team indices hold the same teams.  In every state, also after
\* a load that failed part-way, the by-identifier and the by-slug index hold
\* the same set of teams, each under its own identifier and slug, and the
\* teams that have a mutex and a flag in the registry are exactly the teams
\* in the indices.
C15_TeamIndicesSameTeams ==
    /\ Values(pgTeamsByTeamId) = Values(pgTeamsByTeamSlug)
    /\ \A k \in DOMAIN pgTeamsByTeamId : pgTeamsByTeamId[k].id = k
    /\ \A k \in DOMAIN pgTeamsByTeamSlug : pgTeamsByTeamSlug[k].slug = k
    /\ DOMAIN pgMutexInitializeLocalDataTeamRepos = DOMAIN pgTeamsByTeamId
    /\ DOMAIN pgDoneGetAllTeamRepos = DOMAIN pgTeamsByTeamId

\* the load has failed on the second page after it indexed the first, and
\* the lookup that made it has returned
C15_Witness ==
    /\ TeamsLoadFailedPartWay
    /\ DOMAIN pgTeamsByTeamId = 1..PerPage
    /\ DOMAIN pgTeamsByTeamSlug = {SlugOf(i) : i \in 1..PerPage}
    /\ \E g \in TeamLookupsReturned : g.listed

C17_PaginationRule ==
    /\ (pgDoneGetAllTeams /\ NoTeamsFetchFailed) =>
          /\ Len(teamsLog) = FullPagination(numTeams)
          /\ \A i \in 1..Len(teamsLog) : teamsLog[i].page = i
    /\ \A t \in RepoTeams :
          (DoneFlagSet(t) /\ \A u \in RepoTeams : NoReposFetchFailed(u)) =>
              /\ Len(reposLog[t]) = FullPagination(NumRepos(t))
              /\ \A i \in 1..Len(reposLog[t]) : reposLog[t][i].page = i

\* C18: no unsynchronised access to the per-team registry.  In no state are
\* two goroutines about to access pgMutexInitializeLocalDataTeamRepos or
\* pgDoneGetAllTeamRepos, one of them writing, without a common mutex: not a
\* repository loader reading while the teams loader registers teams, and not
\* two teams' loaders at the flags map.
C18_NoUnsynchronisedRegistryAccess == ~RegistryRace

====
